---- MODULE Spec2Model ----
(***************************************************************************)
(* Model of providers/redhat/package_feed.go: the index of advisories by   *)
(* base package name (Feed.PackageFeed) and the listing of advisories that *)
(* are not applicable to one (distro, package) pair (Feed.ListFixedCVEs).  *)
(*                                                                         *)
(* A Go string is modelled as a sequence of lexical tokens, so that        *)
(* "bash-4.4-20.el8" is <<"bash", "-", "4.4", "-", "20.el8">> and the      *)
(* empty string is <<>>.  The parsers work on these sequences.             *)
(***************************************************************************)
EXTENDS Integers, Sequences, FiniteSets, TLC

VARIABLES feed, feed0, nBuilds, first, last, pc, args, ret, calls, checks

vars == <<feed, feed0, nBuilds, first, last, pc, args, ret, calls, checks>>

(* ------------------------------ bounds --------------------------------- *)

\* longest advisory collection explored
MaxFeedLen == 2

\* number of PackageFeed() calls followed in one behaviour
MaxBuilds == 2

(* --------------------------- string helpers ---------------------------- *)

EmptyString == <<>>

Max(S) == CHOOSE x \in S : \A y \in S : y <= x

\* strings.LastIndexByte, 1-based; 0 when the byte does not occur
LastIndexByte(s, c) ==
    LET I == {i \in 1..Len(s) : s[i] = c}
    IN  IF I = {} THEN 0 ELSE Max(I)

\* strings.IndexByte, 1-based; 0 when the byte does not occur
IndexByte(s, c) ==
    LET I == {i \in 1..Len(s) : s[i] = c}
    IN  IF I = {} THEN 0 ELSE CHOOSE i \in I : \A j \in I : i <= j

Range(s) == {s[i] : i \in 1..Len(s)}

\* number of positions of s holding x
Occurrences(s, x) == Cardinality({i \in 1..Len(s) : s[i] = x})

(* -------------------------- external parsers --------------------------- *)

\* rpm.Parse: name-version-release, split at the last two dashes; a
\* specifier lacking one of the three parts is malformed.
rpmParse(pkg) ==
    LET i == LastIndexByte(pkg, "-")
        nv == SubSeq(pkg, 1, i - 1)
        j == LastIndexByte(nv, "-")
    IN  IF i = 0 \/ i = Len(pkg) \/ j = 0 \/ j = 1 \/ j = Len(nv)
        THEN [ok |-> FALSE, Name |-> EmptyString, Version |-> EmptyString,
              Release |-> EmptyString]
        ELSE [ok |-> TRUE, Name |-> SubSeq(nv, 1, j - 1),
              Version |-> SubSeq(nv, j + 1, Len(nv)),
              Release |-> SubSeq(pkg, i + 1, Len(pkg))]

\* the attributes of a CPE URI, separated by ":"
RECURSIVE SplitColon(_)
SplitColon(s) ==
    LET i == IndexByte(s, ":")
    IN  IF i = 0 THEN <<s>>
        ELSE <<SubSeq(s, 1, i - 1)>> \o SplitColon(SubSeq(s, i + 1, Len(s)))

\* wfn.Parse: a CPE URI "cpe:/part:vendor:product:version"; anything
\* without the prefix or with an unknown part is malformed.
wfnParse(distro) ==
    IF Len(distro) >= 2 /\ distro[1] = "cpe:/" /\ distro[2] \in {"a", "o", "h"}
    THEN [ok |-> TRUE, attrs |-> SplitColon(Tail(distro))]
    ELSE [ok |-> FALSE, attrs |-> <<>>]

(* ----------------------------- the inputs ------------------------------ *)

Str(t) == <<t>>

Spec3(n, v, r) == n \o <<"-", v, "-", r>>

bash == Str("bash")
zsh == Str("zsh")
nssTools == <<"nss", "-", "tools">>
curl == Str("curl")

AR(s) == [Package |-> s]
PS(n) == [PackageName |-> n]

\* schema.CVE: the fields PackageFeed and ListFixedCVEs read
CVE(name, ars, pss) ==
    [Name |-> name, AffectedRelease |-> ars, PackageState |-> pss]

\* the advisories collections are made of
Cves ==
    { CVE("CVE-2020-0001", <<AR(Spec3(bash, "4.4", "20.el8"))>>, <<>>),
      CVE("CVE-2020-0002", <<AR(EmptyString)>>, <<PS(bash)>>),
      CVE("CVE-2020-0003",
          <<AR(Spec3(bash, "4.4", "20.el8")), AR(Spec3(bash, "4.4", "21.el8"))>>,
          <<PS(bash), PS(zsh)>>),
      CVE("CVE-2020-0004",
          <<AR(<<"bash", "-", "4.4">>), AR(Spec3(zsh, "5.0", "1.el8"))>>,
          <<PS(bash)>>),
      CVE("CVE-2020-0005", <<>>, <<>>),
      CVE("CVE-2020-0006", <<AR(EmptyString), AR(Str("zsh"))>>, <<PS(EmptyString)>>),
      CVE("CVE-2020-0007",
          <<AR(Spec3(nssTools, "3.0", "1.el8"))>>,
          <<PS(EmptyString), PS(nssTools), PS(nssTools)>>) }

\* Feed: an ordered collection of advisories; an advisory may be listed twice
Feeds == UNION {[1..n -> Cves] : n \in 0..MaxFeedLen}

Distros ==
    { <<"cpe:/", "o", ":", "redhat", ":", "enterprise_linux", ":", "8">>,
      <<"redhat", ":", "enterprise_linux", ":", "8">> }

Pkgs ==
    { Spec3(bash, "4.4", "23.el8"),
      Spec3(curl, "7.0", "1.el8"),
      <<"bash", "-", "4.4">> }

(* ------------------------------ PackageFeed ---------------------------- *)

\* addPackage without the scan of pkgs
addPackage_always(pkgs, pkg) == Append(pkgs, pkg)

\* addPackage adds pkg to the list of packages only if not already there
addPackage(pkgs, pkg) ==
    IF \E i \in 1..Len(pkgs) : pkgs[i] = pkg THEN pkgs ELSE Append(pkgs, pkg)

\* the AffectedRelease loop leaving at the first package that fails to parse
RECURSIVE ScanAffectedRelease_break(_, _)
ScanAffectedRelease_break(pkgs, ars) ==
    IF ars = <<>> THEN pkgs
    ELSE LET ar == Head(ars)
             rpmPkg == rpmParse(ar.Package)
         IN  IF ar.Package = EmptyString
             THEN ScanAffectedRelease_break(pkgs, Tail(ars))
             ELSE IF ~rpmPkg.ok
             THEN pkgs
             ELSE ScanAffectedRelease_break(addPackage(pkgs, rpmPkg.Name), Tail(ars))

\* 1. look at AffectedRelease
RECURSIVE ScanAffectedRelease(_, _)
ScanAffectedRelease(pkgs, ars) ==
    IF ars = <<>> THEN pkgs
    ELSE LET ar == Head(ars)
             rpmPkg == rpmParse(ar.Package)
         IN  IF ar.Package = EmptyString
             THEN ScanAffectedRelease(pkgs, Tail(ars))
             ELSE IF ~rpmPkg.ok
             THEN ScanAffectedRelease(pkgs, Tail(ars))
             ELSE ScanAffectedRelease(addPackage(pkgs, rpmPkg.Name), Tail(ars))

\* the PackageState loop without the test for an empty name
RECURSIVE ScanPackageState_keepEmpty(_, _)
ScanPackageState_keepEmpty(pkgs, pss) ==
    IF pss = <<>> THEN pkgs
    ELSE ScanPackageState_keepEmpty(addPackage(pkgs, Head(pss).PackageName),
                                    Tail(pss))

\* 2. look at PackageState
RECURSIVE ScanPackageState(_, _)
ScanPackageState(pkgs, pss) ==
    IF pss = <<>> THEN pkgs
    ELSE LET ps == Head(pss)
         IN  IF ps.PackageName = EmptyString
             THEN ScanPackageState(pkgs, Tail(pss))
             ELSE ScanPackageState(addPackage(pkgs, ps.PackageName), Tail(pss))

\* the two scans each starting from an empty list
Candidates_perSource(cve) ==
    ScanAffectedRelease(<<>>, cve.AffectedRelease)
        \o ScanPackageState(<<>>, cve.PackageState)

\* pkgs := []string{} and the two scans: the candidate names of one advisory
Candidates(cve) ==
    ScanPackageState(ScanAffectedRelease(<<>>, cve.AffectedRelease),
                     cve.PackageState)

\* pkgFeed[k]; a missing key reads as the nil slice
Lookup(pkgFeed, k) == IF k \in DOMAIN pkgFeed THEN pkgFeed[k] ELSE <<>>

\* the advisory put in front of the bucket
AppendBucket_prepend(pkgFeed, pkg, cve) ==
    [k \in DOMAIN pkgFeed \cup {pkg} |->
        IF k = pkg THEN <<cve>> \o Lookup(pkgFeed, pkg) ELSE pkgFeed[k]]

\* pkgFeed[pkg] = append(pkgFeed[pkg], cve)
AppendBucket(pkgFeed, pkg, cve) ==
    [k \in DOMAIN pkgFeed \cup {pkg} |->
        IF k = pkg THEN Append(Lookup(pkgFeed, pkg), cve) ELSE pkgFeed[k]]

\* for _, pkg := range pkgs { pkgFeed[pkg] = append(pkgFeed[pkg], cve) }
RECURSIVE AppendBuckets(_, _, _)
AppendBuckets(pkgFeed, pkgs, cve) ==
    IF pkgs = <<>> THEN pkgFeed
    ELSE AppendBuckets(AppendBucket(pkgFeed, Head(pkgs), cve), Tail(pkgs), cve)

\* for _, cve := range feed { ... }
RECURSIVE BuildFrom(_, _)
BuildFrom(pkgFeed, cves) ==
    IF cves = <<>> THEN pkgFeed
    ELSE BuildFrom(AppendBuckets(pkgFeed, Candidates(Head(cves)), Head(cves)),
                   Tail(cves))

\* the map of the previous call used again
NewPackageFeed_reused == last

\* pkgFeed := PackageFeed{}
NewPackageFeed == [k \in {} |-> <<>>]

\* Feed.PackageFeed transforms a Feed into a PackageFeed
PackageFeed(f) == BuildFrom(NewPackageFeed, f)

(* ----------------------------- ListFixedCVEs --------------------------- *)

ErrNil == "nil"
ErrDistro == "list: can't parse distro cpe"
ErrPackage == "list: can't parse package name"
ErrChecker == "list: checker"

\* what one call returns, with the calls it made to its collaborators (in
\* order) and the arguments of every checker.Check
Return(cves, err, called, checked) ==
    [cves |-> cves, err |-> err, calls |-> called, checks |-> checked]

\* checker.Check(p, d, name): the verdict of the checker feed.Checker() built;
\* oracle is the set of advisory names it finds not applicable to (p, d)
Check(oracle, p, d, name) == name \in oracle

\* the loop appending every advisory of the bucket, whatever Check says
RECURSIVE CheckBucket_all(_, _, _, _, _)
CheckBucket_all(bucket, p, d, oracle, acc) ==
    IF bucket = <<>> THEN acc
    ELSE LET cve == Head(bucket)
         IN  CheckBucket_all(Tail(bucket), p, d, oracle,
                 [cves |-> Append(acc.cves, cve.Name),
                  checks |-> Append(acc.checks, [p |-> p, d |-> d, name |-> cve.Name])])

\* for _, cve := range pkgFeed[p.Name] { if checker.Check(...) { append } }
RECURSIVE CheckBucket(_, _, _, _, _)
CheckBucket(bucket, p, d, oracle, acc) ==
    IF bucket = <<>> THEN acc
    ELSE LET cve == Head(bucket)
             hit == Check(oracle, p, d, cve.Name)
         IN  CheckBucket(Tail(bucket), p, d, oracle,
                 [cves |-> IF hit THEN Append(acc.cves, cve.Name) ELSE acc.cves,
                  checks |-> Append(acc.checks, [p |-> p, d |-> d, name |-> cve.Name])])

CallsBeforeChecks == <<"wfn.Parse", "rpm.Parse", "PackageFeed", "Checker">>

CheckCalls(n) == [i \in 1..n |-> "Check"]

\* the rest of ListFixedCVEs with a missing bucket reported as an error
ListParsed_notFound(f, d, p, checkerOk, oracle) ==
    LET pkgFeed == PackageFeed(f)
    IN  IF ~checkerOk
        THEN Return(<<>>, ErrChecker, CallsBeforeChecks, <<>>)
        ELSE IF p.Name \notin DOMAIN pkgFeed
        THEN Return(<<>>, "list: no such package", CallsBeforeChecks, <<>>)
        ELSE LET r == CheckBucket(pkgFeed[p.Name], p, d, oracle,
                                  [cves |-> <<>>, checks |-> <<>>])
             IN  Return(r.cves, ErrNil,
                        CallsBeforeChecks \o CheckCalls(Len(r.checks)), r.checks)

\* the rest of ListFixedCVEs with the error of feed.Checker() tested after
\* the loop
ListParsed_lateError(f, d, p, checkerOk, oracle) ==
    LET pkgFeed == PackageFeed(f)
        r == CheckBucket(Lookup(pkgFeed, p.Name), p, d, oracle,
                         [cves |-> <<>>, checks |-> <<>>])
    IN  IF ~checkerOk
        THEN Return(<<>>, ErrChecker,
                    CallsBeforeChecks \o CheckCalls(Len(r.checks)), r.checks)
        ELSE Return(r.cves, ErrNil,
                    CallsBeforeChecks \o CheckCalls(Len(r.checks)), r.checks)

\* ListFixedCVEs once distro and pkg are parsed: index, checker, loop
ListParsed(f, d, p, checkerOk, oracle) ==
    LET pkgFeed == PackageFeed(f)
    IN  IF ~checkerOk
        THEN Return(<<>>, ErrChecker, CallsBeforeChecks, <<>>)
        ELSE LET r == CheckBucket(Lookup(pkgFeed, p.Name), p, d, oracle,
                                  [cves |-> <<>>, checks |-> <<>>])
             IN  Return(r.cves, ErrNil,
                        CallsBeforeChecks \o CheckCalls(Len(r.checks)), r.checks)

\* ListFixedCVEs going on after a distro that failed to parse
ListFixedCVEs_ignoreDistroError(f, distro, pkg, checkerOk, oracle) ==
    LET d == wfnParse(distro)
        p == rpmParse(pkg)
    IN  IF ~p.ok
        THEN Return(<<>>, ErrPackage, <<"wfn.Parse", "rpm.Parse">>, <<>>)
        ELSE ListParsed(f, d, p, checkerOk, oracle)

\* Feed.ListFixedCVEs(distro, pkg); checkerOk and oracle are what
\* feed.Checker() answers in this call
ListFixedCVEs(f, distro, pkg, checkerOk, oracle) ==
    LET d == wfnParse(distro)
        p == rpmParse(pkg)
    IN  IF ~d.ok
        THEN Return(<<>>, ErrDistro, <<"wfn.Parse">>, <<>>)
        ELSE IF ~p.ok
        THEN Return(<<>>, ErrPackage, <<"wfn.Parse", "rpm.Parse">>, <<>>)
        ELSE ListParsed(f, d, p, checkerOk, oracle)

(* ------------------------------ the machine ---------------------------- *)

NoArgs == [distro |-> EmptyString, pkg |-> EmptyString, checkerOk |-> FALSE,
           oracle |-> {}]

NoRet == [cves |-> <<>>, err |-> ErrNil]

Init ==
    /\ feed \in Feeds
    /\ feed0 = feed
    /\ nBuilds = 0
    /\ first = [k \in {} |-> <<>>]
    /\ last = [k \in {} |-> <<>>]
    /\ pc = "ready"
    /\ args = NoArgs
    /\ ret = NoRet
    /\ calls = <<>>
    /\ checks = <<>>

\* a caller runs feed.PackageFeed() and keeps the result
CallPackageFeed ==
    /\ nBuilds < MaxBuilds
    /\ nBuilds' = nBuilds + 1
    /\ last' = PackageFeed(feed)
    /\ first' = IF nBuilds = 0 THEN PackageFeed(feed) ELSE first
    /\ UNCHANGED <<feed, feed0, pc, args, ret, calls, checks>>

\* the names of the advisories of a collection
FeedNames(f) == {f[i].Name : i \in 1..Len(f)}

\* a caller runs feed.ListFixedCVEs(distro, pkg) and gets its results
CallListFixedCVEs ==
    /\ pc = "ready"
    /\ \E distro \in Distros, pkg \in Pkgs, checkerOk \in BOOLEAN,
          oracle \in SUBSET FeedNames(feed) :
          LET r == ListFixedCVEs(feed, distro, pkg, checkerOk, oracle)
          IN  /\ args' = [distro |-> distro, pkg |-> pkg,
                          checkerOk |-> checkerOk, oracle |-> oracle]
              /\ ret' = [cves |-> r.cves, err |-> r.err]
              /\ calls' = r.calls
              /\ checks' = r.checks
    /\ pc' = "returned"
    /\ UNCHANGED <<feed, feed0, nBuilds, first, last>>

Next == CallPackageFeed \/ CallListFixedCVEs

Spec == Init /\ [][Next]_vars

(* ------------------------------ properties ----------------------------- *)

NamesOf(bucket) == [i \in 1..Len(bucket) |-> bucket[i].Name]

\* an index with every advisory replaced by its name
IndexNames(pkgFeed) == [k \in DOMAIN pkgFeed |-> NamesOf(pkgFeed[k])]

\* the release-fix entries of an advisory that name a package and parse
ParsedReleases(cve) ==
    {i \in 1..Len(cve.AffectedRelease) :
        /\ cve.AffectedRelease[i].Package # EmptyString
        /\ rpmParse(cve.AffectedRelease[i].Package).ok}

\* the package-state entries of an advisory that name a package
NamedStates(cve) ==
    {j \in 1..Len(cve.PackageState) :
        cve.PackageState[j].PackageName # EmptyString}

\* the base names an advisory refers to, as a set
CandidateSet(cve) ==
    {rpmParse(cve.AffectedRelease[i].Package).Name : i \in ParsedReleases(cve)}
        \cup {cve.PackageState[j].PackageName : j \in NamedStates(cve)}

\* how many entries of an advisory yield the base name k
Contributions(cve, k) ==
    Cardinality({i \in ParsedReleases(cve) :
                    rpmParse(cve.AffectedRelease[i].Package).Name = k})
        + Cardinality({j \in NamedStates(cve) :
                          cve.PackageState[j].PackageName = k})

\* the buckets of an index that hold an advisory
BucketsOf(pkgFeed, cve) == {k \in DOMAIN pkgFeed : cve \in Range(pkgFeed[k])}

\* the release-fix entries of an advisory that name a package and fail to parse
FailedReleases(cve) ==
    {j \in 1..Len(cve.AffectedRelease) :
        /\ cve.AffectedRelease[j].Package # EmptyString
        /\ ~rpmParse(cve.AffectedRelease[j].Package).ok}

RemoveAt(s, j) == SubSeq(s, 1, j - 1) \o SubSeq(s, j + 1, Len(s))

\* the collection f with release-fix entry j of its i-th advisory removed
WithoutRelease(f, i, j) ==
    [f EXCEPT ![i].AffectedRelease = RemoveAt(f[i].AffectedRelease, j)]

Built == nBuilds > 0

Returned == pc = "returned"

DistroParses == wfnParse(args.distro).ok

PackageParses == rpmParse(args.pkg).ok

\* the bucket the call of ListFixedCVEs looked at
QueriedBucket == Lookup(PackageFeed(feed), rpmParse(args.pkg).Name)

\* C1: when the distro and the package parse and the checker is built,
\* ListFixedCVEs returns no error and exactly the names of the advisories of
\* the package's bucket that Check reports, in bucket order, and Check is
\* called once for every advisory of that bucket, in order, with the parsed
\* package, the parsed distro and the advisory's name, and for nothing else.
C1_ListReturnsInapplicable ==
    (Returned /\ DistroParses /\ PackageParses /\ args.checkerOk) =>
        /\ ret.err = ErrNil
        /\ ret.cves = SelectSeq(NamesOf(QueriedBucket),
                                LAMBDA n : n \in args.oracle)
        /\ checks = [i \in 1..Len(QueriedBucket) |->
                        [p |-> rpmParse(args.pkg), d |-> wfnParse(args.distro),
                         name |-> QueriedBucket[i].Name]]
        /\ (Len(QueriedBucket) = 1 =>
                ret.cves = IF QueriedBucket[1].Name \in args.oracle
                           THEN <<QueriedBucket[1].Name>> ELSE <<>>)

\* a call over a bucket of two advisories of which Check reports one
C1_Witness ==
    /\ Returned /\ DistroParses /\ PackageParses /\ args.checkerOk
    /\ Len(QueriedBucket) = 2
    /\ Len(ret.cves) = 1
    /\ Len(checks) = 2

\* C2: with a distro that fails to parse ListFixedCVEs returns the distro
\* parse error and no names, having called nothing but wfn.Parse: no package
\* parse, no index, no checker, no Check.
C2_MalformedDistro ==
    (Returned /\ ~DistroParses) =>
        /\ ret.err = ErrDistro
        /\ ret.cves = <<>>
        /\ calls = <<"wfn.Parse">>
        /\ checks = <<>>

\* a call with a malformed distro and a well-formed package that has a
\* bucket, with a checker that would have been built
C2_Witness ==
    /\ Returned /\ ~DistroParses /\ PackageParses /\ args.checkerOk
    /\ QueriedBucket # <<>>
    /\ args.oracle # {}

\* C3 as stated: for a well-formed distro and package whose base name has no
\* bucket, ListFixedCVEs returns an empty sequence and no error.
C3_NoBucketNoError ==
    (Returned /\ DistroParses /\ PackageParses /\ QueriedBucket = <<>>) =>
        /\ ret.cves = <<>>
        /\ ret.err = ErrNil

\* C3 amended: for a well-formed distro and package whose base name has no
\* bucket, ListFixedCVEs returns an empty sequence and no error when
\* feed.Checker() succeeds (and calls Check for nothing); when it fails the
\* checker's error is returned, bucket or not.
C3_NoBucketNoErrorWithChecker ==
    (Returned /\ DistroParses /\ PackageParses /\ QueriedBucket = <<>>) =>
        /\ ret.cves = <<>>
        /\ checks = <<>>
        /\ ret.err = IF args.checkerOk THEN ErrNil ELSE ErrChecker

\* a call for a package without a bucket in a non-empty index
C3_Witness ==
    /\ Returned /\ DistroParses /\ PackageParses /\ args.checkerOk
    /\ QueriedBucket = <<>>
    /\ DOMAIN PackageFeed(feed) # {}
    /\ args.oracle # {}

\* an advisory none of whose entries yields a name: every release-fix
\* specifier empty or unparsable, every package-state name empty
ZeroCandidates(cve) == ParsedReleases(cve) = {} /\ NamedStates(cve) = {}

\* C4: an advisory without a non-empty candidate name is in no bucket of the
\* index, and an advisory with the one release-fix specifier "" and the one
\* package-state name "bash" is in the bucket of "bash" and no other.
C4_ZeroCandidatesNoBucket ==
    Built =>
        \A i \in 1..Len(feed) :
            /\ ZeroCandidates(feed[i]) => BucketsOf(last, feed[i]) = {}
            /\ (/\ feed[i].AffectedRelease = <<AR(EmptyString)>>
                /\ feed[i].PackageState = <<PS(bash)>>)
                    => BucketsOf(last, feed[i]) = {bash}

\* an index built of an advisory whose entries are all empty or unparsable
\* and of the advisory with specifier "" and state name "bash"
C4_Witness ==
    /\ Built
    /\ \E i, j \in 1..Len(feed) :
        /\ ZeroCandidates(feed[i])
        /\ feed[i].AffectedRelease # <<>> /\ feed[i].PackageState # <<>>
        /\ feed[j].AffectedRelease = <<AR(EmptyString)>>
        /\ feed[j].PackageState = <<PS(bash)>>
        /\ BucketsOf(last, feed[j]) = {bash}

C7_UnparsableEntrySkipped ==
    Built =>
        \A i \in 1..Len(feed) : \A j \in FailedReleases(feed[i]) :
            IndexNames(last) = IndexNames(PackageFeed(WithoutRelease(feed, i, j)))

\* an index built of an advisory with an unparsable entry before a parsable
\* one, followed by another advisory that is in a bucket
C7_Witness ==
    /\ Built
    /\ Len(feed) = 2
    /\ \E j \in FailedReleases(feed[1]) : \E r \in ParsedReleases(feed[1]) :
        /\ j < r
        /\ rpmParse(feed[1].AffectedRelease[r].Package).Name
               \in BucketsOf(last, feed[1])
    /\ BucketsOf(last, feed[2]) # {}

\* C8: ListFixedCVEs stops at the first step that fails, in the order distro
\* parse, package parse, index, checker, bucket checks: a malformed distro
\* gives the distro error whatever the package; a malformed package gives the
\* package error before any index or checker; a failing feed.Checker() gives
\* its error before any Check; and an error comes with no names and no Check.
C8_FailFastOrder ==
    Returned =>
        /\ ~DistroParses => (ret.err = ErrDistro /\ calls = <<"wfn.Parse">>)
        /\ (DistroParses /\ ~PackageParses) =>
               (ret.err = ErrPackage /\ calls = <<"wfn.Parse", "rpm.Parse">>)
        /\ (DistroParses /\ PackageParses /\ ~args.checkerOk) =>
               (ret.err = ErrChecker /\ calls = CallsBeforeChecks)
        /\ (DistroParses /\ PackageParses /\ args.checkerOk) =>
               /\ ret.err = ErrNil
               /\ calls = CallsBeforeChecks \o CheckCalls(Len(QueriedBucket))
        /\ ret.err # ErrNil =>
               (ret.cves = <<>> /\ checks = <<>> /\ "Check" \notin Range(calls))

\* a call whose checker fails for a package with a bucket that Check would
\* have reported
C8_Witness ==
    /\ Returned /\ DistroParses /\ PackageParses /\ ~args.checkerOk
    /\ QueriedBucket # <<>>
    /\ \E i \in 1..Len(QueriedBucket) : QueriedBucket[i].Name \in args.oracle
    /\ ret.err = ErrChecker

\* every base name some advisory of the collection refers to
FeedCandidates == UNION {CandidateSet(feed[i]) : i \in 1..Len(feed)}

\* C9: an advisory is in the bucket of k exactly when k is the base name of
\* one of its non-empty, parsable release-fix specifiers or one of its
\* non-empty package-state names; no key has an empty bucket; and a bucket
\* lists its advisories in the order of the collection, whatever the order
\* in which each advisory's names were found.
C9_MembershipAndOrder ==
    Built =>
        /\ \A i \in 1..Len(feed) : BucketsOf(last, feed[i]) = CandidateSet(feed[i])
        /\ \A k \in DOMAIN last : last[k] # <<>>
        /\ DOMAIN last = FeedCandidates
        /\ \A k \in DOMAIN last :
               last[k] = SelectSeq(feed, LAMBDA c : k \in CandidateSet(c))

\* an index built of two different advisories that share two names and find
\* them in opposite orders
C9_Witness ==
    /\ Built
    /\ Len(feed) = 2
    /\ feed[1] # feed[2]
    /\ \E k, m \in DOMAIN last :
        /\ k # m
        /\ last[k] = feed /\ last[m] = feed
        /\ Candidates(feed[1]) = <<k, m>>
        /\ Candidates(feed[2]) = <<m, k>>

\* C10 as stated: for every collection, one that lists an advisory twice
\* included, an advisory is in a bucket at most once.
C10_AtMostOncePerBucket ==
    Built =>
        \A k \in DOMAIN last : \A c \in Range(last[k]) :
            Occurrences(last[k], c) <= 1

\* C10 amended: an advisory is in a bucket at most as many times as the
\* collection lists it, hence at most once when the collection lists it once.
C10_AtMostOncePerListing ==
    Built =>
        \A k \in DOMAIN last : \A c \in Range(last[k]) :
            Occurrences(last[k], c) <= Occurrences(feed, c)

\* an index built of a collection listing twice an advisory that yields one
\* name by both sources
C10_Witness ==
    /\ Built
    /\ Len(feed) = 2
    /\ feed[1] = feed[2]
    /\ \E k \in DOMAIN last :
        /\ Contributions(feed[1], k) > 1
        /\ Occurrences(last[k], feed[1]) = 2

====
